---- MODULE Spec2Model ----
(***************************************************************************)
(* Model of biosppy.signals.hrv (src/biosppy/signals/hrv.py).              *)
(*                                                                         *)
(* Units.  RR intervals and durations are integers in milliseconds; the    *)
(* code's duration in seconds (np.sum(rri) / 1000.) is compared against    *)
(* the thresholds times 1000.  Histogram edges are in 1/16 ms, so that the *)
(* default bin size 1000/128 ms = 125/16 ms is an integer.  Frequencies    *)
(* are exact fractions num/den Hz, band limits are in mHz.  Quotients the  *)
(* code leaves as floats are kept as fractions [num, den] or as fixed-     *)
(* point floors, as said at each definition.                               *)
(*                                                                         *)
(* Exceptions.  Every function returns a record whose field exc is "none"  *)
(* or the Python exception type raised, and whose field at names the       *)
(* statement that raised it.                                               *)
(***************************************************************************)
EXTENDS Integers, Sequences, FiniteSets, TLC

VARIABLES pc, args, rri, duration, rri_det, out, exc, trace

vars == <<pc, args, rri, duration, rri_det, out, exc, trace>>

(***************************************************************************)
(* Sentinels for Python values that are not numbers or sequences.          *)
(***************************************************************************)
\* None, for an argument that is a sequence (rpeaks=None, rri=None)
None == <<-1>>
\* None, for the duration argument (duration=None)
NoneDuration == 0 - 2
\* np.inf, as a duration
np_inf == 0 - 1
\* float nan, as the value of a feature that is otherwise >= 0
np_nan == 0 - 3
\* the empty ReturnTuple, utils.ReturnTuple((), ())
EmptyOut == [k \in {} |-> 0]

(***************************************************************************)
(* numpy reductions on integer sequences.                                  *)
(***************************************************************************)
\* The reductions halve the index range, so that the depth of the recursion
\* is logarithmic in the length.
RECURSIVE SumRange(_, _, _)
SumRange(s, lo, hi) ==
    IF lo > hi THEN 0
    ELSE IF lo = hi THEN s[lo]
    ELSE LET mid == (lo + hi) \div 2
         IN SumRange(s, lo, mid) + SumRange(s, mid + 1, hi)

np_sum(s) == SumRange(s, 1, Len(s))

RECURSIVE MinRange(_, _, _)
MinRange(s, lo, hi) ==
    IF lo = hi THEN s[lo]
    ELSE LET mid == (lo + hi) \div 2
             l == MinRange(s, lo, mid)
             r == MinRange(s, mid + 1, hi)
         IN IF r < l THEN r ELSE l

np_min(s) == MinRange(s, 1, Len(s))

RECURSIVE MaxRange(_, _, _)
MaxRange(s, lo, hi) ==
    IF lo = hi THEN s[lo]
    ELSE LET mid == (lo + hi) \div 2
             l == MaxRange(s, lo, mid)
             r == MaxRange(s, mid + 1, hi)
         IN IF r > l THEN r ELSE l

np_max(s) == MaxRange(s, 1, Len(s))

\* np.argmax: the first index (1-based) of the maximum
np_argmax(s) ==
    LET mx == np_max(s)
    IN CHOOSE i \in 1..Len(s) : s[i] = mx /\ \A j \in 1..(i - 1) : s[j] < mx

\* np.diff
np_diff(s) == [i \in 1..(IF Len(s) = 0 THEN 0 ELSE Len(s) - 1) |-> s[i + 1] - s[i]]

np_concatenate(ss) ==
    LET RECURSIVE Cat(_)
        Cat(i) == IF i > Len(ss) THEN <<>> ELSE ss[i] \o Cat(i + 1)
    IN Cat(1)

Abs(x) == IF x < 0 THEN 0 - x ELSE x

\* floor of the square root (the search stays below 2^31)
RECURSIVE SqrtSearch(_, _, _)
SqrtSearch(x, lo, hi) ==
    IF lo >= hi THEN lo
    ELSE LET mid == (lo + hi + 1) \div 2
         IN IF mid * mid <= x THEN SqrtSearch(x, mid, hi)
            ELSE SqrtSearch(x, lo, mid - 1)

ISqrt(x) == IF x <= 0 THEN 0 ELSE SqrtSearch(x, 0, IF x < 46340 THEN x ELSE 46340)

\* n**2 times the population variance of s (np.std(s)**2, ddof = 0), n = len(s).
\* The variance does not change when a constant is subtracted; the floor of
\* the mean is subtracted first to keep the sums small.
VarTimesN2(s) ==
    LET n == Len(s)
        c == np_sum(s) \div n
        d == [i \in 1..n |-> s[i] - c]
        sq == [i \in 1..n |-> d[i] * d[i]]
    IN n * np_sum(sq) - np_sum(d) * np_sum(d)

\* the population variance, floor, for a non-empty sequence
np_var(s) == VarTimesN2(s) \div (Len(s) * Len(s))

\* np.std, floor, for a non-empty sequence
np_std(s) == ISqrt(np_var(s))

(***************************************************************************)
(* tools.detrend_smoothness_priors: not in src/.  The specification gives  *)
(* its contract only: a numeric sequence and a smoothing factor go in, a   *)
(* detrended sequence of the same length comes out.  The stand-in removes  *)
(* the mean (floor) of the sequence it is given, so that the result of a   *)
(* partition depends on that partition alone.                              *)
(***************************************************************************)
detrend_smoothness_priors(signal, smoothing_factor) ==
    IF Len(signal) = 0 THEN <<>>
    ELSE LET mean == np_sum(signal) \div Len(signal)
         IN [i \in 1..Len(signal) |-> signal[i] - mean]

(***************************************************************************)
(* compute_rri, rri_filter, detrend_window                                 *)
(***************************************************************************)
\* line 157: rri = (1000. * np.diff(rpeaks)) / sampling_rate.  The sampling
\* rates of the model divide 1000, so the quotient is exact.
\* line 160: rri.min() of an empty difference raises ValueError.
compute_rri(rpeaks, sampling_rate) ==
    LET d == np_diff(rpeaks)
        r == [i \in 1..Len(d) |-> (1000 * d[i]) \div sampling_rate]
    IN IF Len(r) = 0
       THEN [exc |-> "ValueError", at |-> "rri.min", rri |-> r]
       ELSE [exc |-> "none", at |-> "", rri |-> r]

DefaultThreshold == 1200

\* line 181: rri[np.where(rri < threshold)]
\* rri_filter keeping an interval equal to the threshold
rri_filter_Inclusive(rri_in, threshold) == SelectSeq(rri_in, LAMBDA x : x <= threshold)

rri_filter(rri_in, threshold) == SelectSeq(rri_in, LAMBDA x : x < threshold)

\* np.array_split(ary, sections): the first len % sections parts hold
\* len // sections + 1 elements, the others len // sections.
np_array_split(ary, sections) ==
    LET n == Len(ary)
        q == n \div sections
        e == n % sections
        start(k) == (k - 1) * q + (IF k - 1 < e THEN k - 1 ELSE e)
        size(k) == q + (IF k <= e THEN 1 ELSE 0)
    IN [k \in 1..sections |-> [i \in 1..size(k) |-> ary[start(k) + i]]]

DefaultWinLen == 2000
DefaultSmoothingFactor == 500

\* detrend_splits with the number of partitions rounded up
detrend_splits_RoundUp(rri_in, win_len) ==
    IF Len(rri_in) > win_len
    THEN np_array_split(rri_in, (Len(rri_in) + win_len - 1) \div win_len)
    ELSE <<rri_in>>

\* lines 685-688: the partitions handed to the detrending primitive
detrend_splits(rri_in, win_len) ==
    IF Len(rri_in) > win_len
    THEN np_array_split(rri_in, Len(rri_in) \div win_len)
    ELSE <<rri_in>>

\* lines 678-702.  calls: the arguments of the calls of the primitive, in order.
detrend_window(rri_in, win_len) ==
    LET splits == detrend_splits(rri_in, win_len)
        dets == [k \in 1..Len(splits) |->
                    detrend_smoothness_priors(splits[k], DefaultSmoothingFactor)]
    IN [calls |-> splits,
        rri_det |-> IF Len(rri_in) > win_len THEN np_concatenate(dets) ELSE dets[1]]

(***************************************************************************)
(* compute_geometrical (lines 581-657).  Edges and TINN are in 1/16 ms.    *)
(***************************************************************************)
\* 16 * binsize * 1000 for the default binsize = 1/128 s (lines 581, 602)
DefaultBinsize16 == 125

\* line 607: np.arange(tmin, tmax + binsize, binsize) has
\* ceil((tmax + binsize - tmin) / binsize) edges, the first one tmin.
geo_nedges(tmin, tmax, binsize) == (tmax - tmin + binsize + binsize - 1) \div binsize

\* line 608: np.histogram(rri, bins): bin k is [edge k, edge k+1), the last
\* bin is closed on the right.
geo_hist(rri16, tmin, binsize, nbins) ==
    LET binof(v) == LET k == ((v - tmin) \div binsize) + 1
                    IN IF k > nbins THEN nbins ELSE k
    IN [k \in 1..nbins |-> Cardinality({i \in 1..Len(rri16) : binof(rri16[i]) = k})]

\* lines 631-634: the triangle through (n, 0), (peak edge, max_count), (m, 0),
\* interpolated at edge i, times den = (p - a) * (b - p); a, p, b and i are
\* edge indexes (1-based), n = edge a, m = edge b.
geo_qnum(i, a, p, b, max_count) ==
    IF i > a /\ i <= p THEN max_count * (i - a) * (b - p)
    ELSE IF i > p /\ i < b THEN max_count * (b - i) * (p - a)
    ELSE 0

\* line 637: np.sum((nn_hist[0] - q[:-1]) ** 2), as the fraction num / den
geo_error(hist, a, p, b, max_count) ==
    LET den == (p - a) * (b - p)
        sq == [k \in 1..Len(hist) |->
                 (hist[k] * den - geo_qnum(k, a, p, b, max_count))
                 * (hist[k] * den - geo_qnum(k, a, p, b, max_count))]
    IN [num |-> np_sum(sq), den |-> den * den]

\* geo_less with error <= error_min: a later pair of equal error replaces
\* the retained one
geo_less_OrEqual(err, best) ==
    \/ ~best.found
    \/ err.num * best.error_min.den <= best.error_min.num * err.den

\* line 639: error < error_min; best.found is FALSE while error_min is np.inf
geo_less(err, best) ==
    \/ ~best.found
    \/ err.num * best.error_min.den < best.error_min.num * err.den

\* lines 627-641: the pairs (n_, m_) in loop order: n_ over the edges before
\* the peak bin (outer), m_ over the edges after it (inner).
RECURSIVE geo_search(_, _, _, _, _, _)
geo_search(hist, p, nedges, max_count, idx, best) ==
    LET cntM == nedges - p
        total == (p - 1) * cntM
    IN IF idx >= total THEN best
       ELSE LET a == 1 + (idx \div cntM)
                b == p + 1 + (idx % cntM)
                err == geo_error(hist, a, p, b, max_count)
                nxt == IF geo_less(err, best)
                       THEN [found |-> TRUE, error_min |-> err, a |-> a, b |-> b]
                       ELSE best
            IN geo_search(hist, p, nedges, max_count, idx + 1, nxt)

compute_geometrical(rri_in, binsize) ==
    IF Len(rri_in) = 0
    THEN [exc |-> "ValueError", at |-> "rri.min"]
    ELSE
    LET rri16 == [i \in 1..Len(rri_in) |-> 16 * rri_in[i]]
        tmin == np_min(rri16)
        tmax == np_max(rri16)
        nedges == geo_nedges(tmin, tmax, binsize)
        nbins == nedges - 1
    IN IF nbins = 0
       THEN \* line 611: np.max of the empty count array
            [exc |-> "ValueError", at |-> "np.max(nn_hist[0])"]
       ELSE
       LET hist == geo_hist(rri16, tmin, binsize, nbins)
           max_count == np_max(hist)
           p == np_argmax(hist)
           best == geo_search(hist, p, nedges, max_count, 0,
                              [found |-> FALSE, error_min |-> [num |-> 0, den |-> 1],
                               a |-> 0, b |-> 0])
           n == IF best.found THEN tmin + (best.a - 1) * binsize ELSE 0
           m == IF best.found THEN tmin + (best.b - 1) * binsize ELSE 0
       IN [exc |-> "none", at |-> "",
           hti |-> [num |-> Len(rri_in), den |-> max_count],
           tinn |-> m - n,
           n |-> n, m |-> m,
           nbins |-> nbins, peak_hist |-> p - 1, hist |-> hist,
           found |-> best.found, a |-> best.a, b |-> best.b]

(***************************************************************************)
(* utils.ReturnTuple (not in src/): an ordered mapping from names to       *)
(* values, modelled as a function on the set of its names.                 *)
(***************************************************************************)
\* out.join(other), out.append(values, names)
join(o1, o2) == o2 @@ o1

keys(o) == DOMAIN o

(***************************************************************************)
(* hrv_timedomain (lines 186-291)                                          *)
(***************************************************************************)
\* duration < secs, duration >= secs, for a duration in ms or np.inf
DurationLt(d, secs) == d # np_inf /\ d < secs * 1000

DurationGe(d, secs) == ~DurationLt(d, secs)

\* line 255: hr = 60 / (rri / 1000), in milli-bpm (floor)
heart_rate(rri_in) == [i \in 1..Len(rri_in) |-> 60000000 \div rri_in[i]]

\* lines 253-268
td_tier10(rri_in, rri_diff) ==
    LET hr == heart_rate(rri_in)
        sq == [i \in 1..Len(rri_diff) |-> rri_diff[i] * rri_diff[i]]
    IN [hr |-> hr,
        hr_min |-> np_min(hr),
        hr_max |-> np_max(hr),
        hr_minmax |-> np_max(hr) - np_min(hr),
        hr_avg |-> np_sum(hr) \div Len(hr),
        rr_mean |-> np_sum(rri_in) \div Len(rri_in),
        rmssd |-> IF Len(rri_diff) = 0 THEN np_nan
                  ELSE ISqrt(np_sum(sq) \div Len(rri_diff))]

\* lines 270-277; pnn50 is the fraction 100 * nn50 / nntot
td_tier20(rri_diff) ==
    LET th50 == 50
        nntot == Len(rri_diff)
        nn50 == Cardinality({i \in 1..nntot : Abs(rri_diff[i]) > th50})
    IN [nn50 |-> nn50, pnn50 |-> [num |-> 100 * nn50, den |-> nntot]]

hrv_timedomain(rri_in, duration_in, detrend_rri, rri_detrended) ==
    LET det == IF detrend_rri
               THEN IF rri_detrended # None THEN rri_detrended
                    ELSE detrend_window(rri_in, DefaultWinLen).rri_det
               ELSE rri_in
        dur == IF duration_in = NoneDuration THEN np_sum(rri_in) ELSE duration_in
        rri_diff == np_diff(det)
        geo == compute_geometrical(rri_in, DefaultBinsize16)
        o10 == td_tier10(rri_in, rri_diff)
        o20 == IF DurationGe(dur, 20) THEN join(o10, td_tier20(rri_diff)) ELSE o10
        o60 == IF DurationGe(dur, 60) THEN join(o20, [sdnn |-> np_std(det)]) ELSE o20
        o90 == IF DurationGe(dur, 90)
               THEN join(o60, [hti |-> geo.hti, tinn |-> geo.tinn]) ELSE o60
    IN IF DurationLt(dur, 10)
       THEN [exc |-> "ValueError", at |-> "duration < 10", out |-> EmptyOut]
       ELSE IF Len(rri_in) = 0
       THEN \* line 256: hr.min() of an empty array
            [exc |-> "ValueError", at |-> "hr.min", out |-> EmptyOut]
       ELSE IF DurationGe(dur, 20) /\ Len(rri_diff) = 0
       THEN \* line 275: nn50 / nntot, two Python ints
            [exc |-> "ZeroDivisionError", at |-> "nn50 / nntot", out |-> EmptyOut]
       ELSE IF DurationGe(dur, 90) /\ geo.exc # "none"
       THEN [exc |-> geo.exc, at |-> geo.at, out |-> EmptyOut]
       ELSE [exc |-> "none", at |-> "", out |-> o90]

(***************************************************************************)
(* sample_entropy (lines 704-745), compute_poincare (lines 530-578),       *)
(* hrv_nonlinear (lines 404-469)                                           *)
(***************************************************************************)
\* Chebyshev distance of the templates of length m starting at i and j:
\* np.abs(xmii - xmj).max(axis=1)
template_dist(x, i, j, m) ==
    LET d == [k \in 1..m |-> Abs(x[i + k - 1] - x[j + k - 1])]
    IN np_max(d)

\* dist <= r * rri.std() with r = r_num / r_den, decided exactly:
\* (r_den * dist)^2 <= r_num^2 * var, and the left side is an integer
within_tolerance(dist, r_num, r_den, var_n2, n) ==
    (r_den * dist) * (r_den * dist) <= (r_num * r_num * var_n2) \div (n * n)

\* lines 732-736 (B) and 739-742 (A): for each of the first `rows` templates
\* of length m, its matches among the first `cols` templates, minus one
match_count(x, m, rows, cols, r_num, r_den) ==
    LET v == VarTimesN2(x)
        n == Len(x)
        per == [i \in 1..rows |->
                  Cardinality({j \in 1..cols :
                      within_tolerance(template_dist(x, i, j, m), r_num, r_den, v, n)}) - 1]
    IN np_sum(per)

\* sample_entropy that maps a zero count of matches to nan
sample_entropy_ZeroIsNan(x, m, r_num, r_den) ==
    LET n == Len(x)
        rows == IF n - m > 0 THEN n - m ELSE 0
        b == IF rows = 0 THEN 0 ELSE match_count(x, m, rows, n - m + 1, r_num, r_den)
        a == IF rows = 0 THEN 0 ELSE match_count(x, m + 1, rows, rows, r_num, r_den)
    IN [exc |-> "none", a |-> a, b |-> b,
        sampen |-> IF a = 0 \/ b = 0 THEN "nan" ELSE "-log(a/b)",
        warning |-> IF a = 0 \/ b = 0 THEN "RuntimeWarning" ELSE "none"]

\* line 745: -np.log(a / b) on numpy numbers: 0/0 is nan, x/0 is inf, log(0)
\* is -inf; numpy emits a RuntimeWarning for each and raises nothing.
sample_entropy(x, m, r_num, r_den) ==
    LET n == Len(x)
        rows == IF n - m > 0 THEN n - m ELSE 0
        b == IF rows = 0 THEN 0 ELSE match_count(x, m, rows, n - m + 1, r_num, r_den)
        a == IF rows = 0 THEN 0 ELSE match_count(x, m + 1, rows, rows, r_num, r_den)
    IN [exc |-> "none", a |-> a, b |-> b,
        sampen |-> IF b = 0 THEN IF a = 0 THEN "nan" ELSE "-inf"
                   ELSE IF a = 0 THEN "inf"
                   ELSE "-log(a/b)",
        warning |-> IF a = 0 \/ b = 0 THEN "RuntimeWarning" ELSE "none"]

\* lines 748-786: the value is phi(m) - phi(m + 1), sums of logarithms that
\* are left symbolic; no statement of it raises for a non-empty sequence.
approximate_entropy(x, m) == "phi(m)-phi(m+1)"

\* sd1 = std((x - y) / sqrt(2)), sd2 = std((x + y) / sqrt(2)), floors in ms;
\* s = pi * sd1 * sd2 with pi as 355/113; the ratios are fractions.  The std
\* of an empty array is nan.
compute_poincare(x_in) ==
    LET n == IF Len(x_in) = 0 THEN 0 ELSE Len(x_in) - 1
        dif == [i \in 1..n |-> x_in[i] - x_in[i + 1]]
        sm == [i \in 1..n |-> x_in[i] + x_in[i + 1]]
        sd1 == IF n = 0 THEN np_nan ELSE ISqrt(np_var(dif) \div 2)
        sd2 == IF n = 0 THEN np_nan ELSE ISqrt(np_var(sm) \div 2)
    IN [s |-> IF n = 0 THEN np_nan ELSE (355 * sd1 * sd2) \div 113,
        sd1 |-> sd1, sd2 |-> sd2,
        sd12 |-> [num |-> sd1, den |-> sd2],
        sd21 |-> [num |-> sd2, den |-> sd1]]

MinLenApEn == 800

hrv_nonlinear(rri_in, duration_in, detrend_rri) ==
    LET dur == IF duration_in = NoneDuration THEN np_sum(rri_in) ELSE duration_in
        x == IF detrend_rri THEN detrend_window(rri_in, DefaultWinLen).rri_det ELSE rri_in
        cp == compute_poincare(x)
        se == join(cp, [sampen |-> sample_entropy(x, 2, 1, 5).sampen])
        o == IF Len(x) >= MinLenApEn
             THEN join(se, [appen |-> approximate_entropy(x, 2)]) ELSE se
    IN IF DurationLt(dur, 90)
       THEN [exc |-> "ValueError", at |-> "duration < 90", out |-> EmptyOut]
       ELSE [exc |-> "none", at |-> "", out |-> o]

(***************************************************************************)
(* compute_fbands (lines 472-527) and hrv_frequencydomain (lines 294-401)  *)
(***************************************************************************)
\* lines 31-36, limits in mHz, in the dictionary's order
FBANDS ==
    << [name |-> "ulf", lo |-> 0, hi |-> 3],
       [name |-> "vlf", lo |-> 3, hi |-> 40],
       [name |-> "lf", lo |-> 40, hi |-> 150],
       [name |-> "hf", lo |-> 150, hi |-> 400],
       [name |-> "vhf", lo |-> 400, hi |-> 500] >>

\* fbands=None
NoneFbands == << [name |-> "None", lo |-> 0, hi |-> 0] >>

\* line 511: the indexes whose frequency num[i] / den Hz lies in [lo, hi] mHz,
\* both limits included
band_indexes(frequencies, lo, hi) ==
    {i \in 1..Len(frequencies.num) :
        /\ frequencies.num[i] * 1000 >= lo * frequencies.den
        /\ frequencies.num[i] * 1000 <= hi * frequencies.den}

\* line 517, in units of 1 / frequencies.den
band_power(powers, band, df) ==
    LET p == [i \in 1..Len(powers) |-> IF i \in band THEN powers[i] ELSE 0]
    IN np_sum(p) * df

\* line 518: frequencies[band][np.argmax(powers[band])], the first maximum
band_peak(frequencies, powers, band) ==
    LET i == CHOOSE i \in band :
                 /\ \A j \in band : powers[j] <= powers[i]
                 /\ \A j \in band : j < i => powers[j] < powers[i]
    IN [num |-> frequencies.num[i], den |-> frequencies.den]

\* lines 510-521: the entries of one band, none when its selection is empty
band_entries(frequencies, powers, fband, df, total_pwr) ==
    LET band == band_indexes(frequencies, fband.lo, fband.hi)
        pwr == band_power(powers, band, df)
    IN IF band = {} THEN EmptyOut
       ELSE (fband.name \o "_pwr" :> pwr)
            @@ (fband.name \o "_peak" :> band_peak(frequencies, powers, band))
            @@ (fband.name \o "_rpwr" :> [num |-> pwr, den |-> total_pwr])

\* band powers and total_pwr are in units of 1 / frequencies.den
compute_fbands(frequencies, powers, fbands) ==
    IF Len(frequencies.num) < 2
    THEN \* line 503: frequencies[1]
         [exc |-> "IndexError", at |-> "frequencies[1]", out |-> EmptyOut]
    ELSE
    LET df == frequencies.num[2] - frequencies.num[1]
        total_pwr == np_sum(powers) * df
        table == IF fbands = NoneFbands THEN FBANDS ELSE fbands
        RECURSIVE Bands(_)
        Bands(k) == IF k > Len(table) THEN EmptyOut
                    ELSE join(band_entries(frequencies, powers, table[k], df, total_pwr),
                              Bands(k + 1))
    IN [exc |-> "none", at |-> "", out |-> Bands(1), total_pwr |-> total_pwr]

DefaultFrs == 4
WelchNperseg == 300

\* scipy.signal.welch(x, fs, nperseg): a segment longer than the signal is cut
\* to the signal's length; the frequencies are k * fs / nperseg Hz for
\* k = 0 .. nperseg // 2.  The estimated powers are the library's: they are
\* abstracted to non-negative numbers that vary with `seed`, the signal's
\* content.
welch(n_samples, fs, nperseg_in, seed) ==
    LET nperseg == IF nperseg_in > n_samples THEN n_samples ELSE nperseg_in
        nfreq == (nperseg \div 2) + 1
    IN [frequencies |-> [num |-> [k \in 1..nfreq |-> (k - 1) * fs], den |-> nperseg],
        powers |-> [k \in 1..nfreq |-> (seed * k) % 5]]

\* fb_out['<name>'] (utils.ReturnTuple.__getitem__, not in src/): looking up
\* a name the mapping does not hold fails with KeyError.
has_key(o, name) == name \in DOMAIN o

\* lines 385-394: lf_hf = lf / hf, lf_nu = lf / (lf + hf), hf_nu = 1 - lf_nu
fd_ratios(fb_out) ==
    LET lf == fb_out["lf_pwr"]
        hf == fb_out["hf_pwr"]
    IN [lf_hf |-> [num |-> lf, den |-> hf],
        lf_nu |-> [num |-> lf, den |-> lf + hf],
        hf_nu |-> [num |-> hf, den |-> lf + hf]]

\* line 381: compute_fbands(frequencies=frequencies, powers=powers, show=False)
fd_bands(frequencies, powers, fbands) == compute_fbands(frequencies, powers, NoneFbands)

hrv_frequencydomain(rri_in, duration_in, freq_method, fbands, detrend_rri, frs, seed) ==
    LET dur == IF duration_in = NoneDuration THEN np_sum(rri_in) ELSE duration_in
        \* lines 364-367: t = np.cumsum(rri) - rri[0]; np.arange(t[0], t[-1], 1000. / frs)
        t_last == np_sum(rri_in) - rri_in[1]
        n_inter == (t_last * frs + 999) \div 1000
        \* line 372: detrending keeps the length
        w == welch(n_inter, frs, WelchNperseg, seed)
        fb == fd_bands(w.frequencies, w.powers, fbands)
    IN IF freq_method # "FFT"
       THEN [exc |-> "ValueError", at |-> "freq_method", out |-> EmptyOut]
       ELSE IF DurationLt(dur, 20)
       THEN [exc |-> "ValueError", at |-> "duration < 20", out |-> EmptyOut]
       ELSE IF Len(rri_in) = 0
       THEN \* line 365: t[0] of an empty array
            [exc |-> "IndexError", at |-> "t[0]", out |-> EmptyOut]
       ELSE IF Len(rri_in) < 4
       THEN \* line 366: cubic interpolation needs four points
            [exc |-> "ValueError", at |-> "interp1d", out |-> EmptyOut]
       ELSE IF fb.exc # "none"
       THEN [exc |-> fb.exc, at |-> fb.at, out |-> EmptyOut]
       ELSE IF ~has_key(fb.out, "lf_pwr")
       THEN [exc |-> "KeyError", at |-> "fb_out['lf_pwr']", out |-> EmptyOut]
       ELSE IF ~has_key(fb.out, "hf_pwr")
       THEN [exc |-> "KeyError", at |-> "fb_out['hf_pwr']", out |-> EmptyOut]
       ELSE [exc |-> "none", at |-> "", out |-> join(fb.out, fd_ratios(fb.out)),
             frequencies |-> w.frequencies, powers |-> w.powers]

(***************************************************************************)
(* hrv (lines 39-134), one action per statement group.                     *)
(*                                                                         *)
(* pc is the statement hrv is at, args its arguments; rri, duration,       *)
(* rri_det and out are its local variables; exc is the exception that      *)
(* left the running call ("none" while there is none); trace lists the     *)
(* statements executed so far, each an entry [step, exc, at] where exc is  *)
(* the exception that statement caught.                                    *)
(***************************************************************************)
\* line 73
parameters_list == <<"auto", "time", "frequency", "non-linear", "all">>

InList(x, l) == \E i \in 1..Len(l) : l[i] = x

NoExc == [type |-> "none", at |-> "", choices |-> <<>>]

Raise(type, at) == [type |-> type, at |-> at, choices |-> <<>>]

Step(name) == [step |-> name, exc |-> "none", at |-> ""]

Caught(name, type, at) == [step |-> name, exc |-> type, at |-> at]

\* HrvCheckInputs without the test of line 74
HrvCheckInputs_NoSelectorTest ==
    /\ pc = "check"
    /\ IF args.rpeaks = None /\ args.rri = None
       THEN /\ pc' = "raised"
            /\ exc' = Raise("TypeError", "rpeaks is None and rri is None")
       ELSE /\ pc' = "compute_rri"
            /\ exc' = exc
    /\ UNCHANGED <<args, rri, duration, rri_det, out, trace>>

\* lines 69-75
HrvCheckInputs ==
    /\ pc = "check"
    /\ IF args.rpeaks = None /\ args.rri = None
       THEN /\ pc' = "raised"
            /\ exc' = Raise("TypeError", "rpeaks is None and rri is None")
       ELSE IF ~InList(args.parameters, parameters_list)
       THEN /\ pc' = "raised"
            /\ exc' = [type |-> "ValueError", at |-> "parameters",
                       choices |-> parameters_list]
       ELSE /\ pc' = "compute_rri"
            /\ exc' = exc
    /\ UNCHANGED <<args, rri, duration, rri_det, out, trace>>

\* lines 83-86
HrvComputeRri ==
    /\ pc = "compute_rri"
    /\ IF args.rri = None
       THEN LET r == compute_rri(args.rpeaks, args.sampling_rate)
            IN /\ rri' = r.rri
               /\ trace' = Append(trace, Step("compute_rri"))
               /\ IF r.exc # "none"
                  THEN pc' = "raised" /\ exc' = Raise(r.exc, r.at)
                  ELSE pc' = "duration" /\ exc' = exc
       ELSE /\ rri' = args.rri
            /\ pc' = "duration"
            /\ UNCHANGED <<trace, exc>>
    /\ UNCHANGED <<args, duration, rri_det, out>>

\* HrvDuration with the duration read after the filter: the sum of the
\* intervals that rri_filter keeps
HrvDuration_AfterFilter ==
    /\ pc = "duration"
    /\ duration' = IF args.filter_rri
                   THEN np_sum(rri_filter(rri, DefaultThreshold))
                   ELSE np_sum(rri)
    /\ trace' = Append(trace, Step("duration"))
    /\ pc' = "filter"
    /\ UNCHANGED <<args, rri, rri_det, out, exc>>

\* lines 88-89
HrvDuration ==
    /\ pc = "duration"
    /\ duration' = np_sum(rri)
    /\ trace' = Append(trace, Step("duration"))
    /\ pc' = "filter"
    /\ UNCHANGED <<args, rri, rri_det, out, exc>>

\* lines 91-93
HrvFilter ==
    /\ pc = "filter"
    /\ IF args.filter_rri
       THEN /\ rri' = rri_filter(rri, DefaultThreshold)
            /\ trace' = Append(trace, Step("rri_filter"))
       ELSE UNCHANGED <<rri, trace>>
    /\ pc' = "detrend"
    /\ UNCHANGED <<args, duration, rri_det, out, exc>>

\* lines 95-99
HrvDetrend ==
    /\ pc = "detrend"
    /\ IF args.detrend_rri
       THEN /\ rri_det' = detrend_window(rri, DefaultWinLen).rri_det
            /\ trace' = Append(trace, Step("detrend_window"))
       ELSE /\ rri_det' = None
            /\ trace' = trace
    /\ pc' = "select"
    /\ UNCHANGED <<args, rri, duration, out, exc>>

\* HrvSelect without the assignment of line 105
HrvSelect_KeepDuration ==
    /\ pc = "select"
    /\ out' = join(out, [rri |-> rri])
    /\ pc' = "time"
    /\ UNCHANGED <<args, rri, duration, rri_det, exc, trace>>

\* lines 101-105
HrvSelect ==
    /\ pc = "select"
    /\ out' = join(out, [rri |-> rri])
    /\ duration' = IF args.parameters = "all" THEN np_inf ELSE duration
    /\ pc' = "time"
    /\ UNCHANGED <<args, rri, rri_det, exc, trace>>

\* the except clauses of lines 112, 121 and 130
CaughtByHrv(type) == type = "ValueError"

\* a family's try statement: its result is joined to out, a caught exception
\* leaves out as it is, any other exception leaves hrv
HrvFamily(name, selected, res, next) ==
    IF ~selected
    THEN /\ pc' = next
         /\ UNCHANGED <<out, exc, trace>>
    ELSE IF res.exc = "none"
    THEN /\ out' = join(out, res.out)
         /\ trace' = Append(trace, Step(name))
         /\ pc' = next
         /\ exc' = exc
    ELSE IF CaughtByHrv(res.exc)
    THEN /\ trace' = Append(trace, Caught(name, res.exc, res.at))
         /\ pc' = next
         /\ UNCHANGED <<out, exc>>
    ELSE /\ trace' = Append(trace, Step(name))
         /\ pc' = "raised"
         /\ exc' = Raise(res.exc, res.at)
         /\ out' = out

\* lines 107-114
HrvTimeDomain ==
    /\ pc = "time"
    /\ HrvFamily("hrv_timedomain",
                 args.parameters \in {"time", "auto", "all"},
                 hrv_timedomain(rri, duration, args.detrend_rri, rri_det),
                 "frequency")
    /\ UNCHANGED <<args, rri, duration, rri_det>>

\* lines 116-123
HrvFrequencyDomain ==
    /\ pc = "frequency"
    /\ HrvFamily("hrv_frequencydomain",
                 args.parameters \in {"frequency", "auto", "all"},
                 hrv_frequencydomain(rri, duration, "FFT", NoneFbands,
                                     args.detrend_rri, DefaultFrs, args.seed),
                 "nonlinear")
    /\ UNCHANGED <<args, rri, duration, rri_det>>

\* lines 125-132
HrvNonLinear ==
    /\ pc = "nonlinear"
    /\ HrvFamily("hrv_nonlinear",
                 args.parameters \in {"non-linear", "auto", "all"},
                 hrv_nonlinear(rri, duration, args.detrend_rri),
                 "return")
    /\ UNCHANGED <<args, rri, duration, rri_det>>

\* line 134
HrvReturn ==
    /\ pc = "return"
    /\ pc' = "done"
    /\ UNCHANGED <<args, rri, duration, rri_det, out, exc, trace>>

(***************************************************************************)
(* The calls of hrv that are explored.                                     *)
(***************************************************************************)
\* the longest RRI sequence: 150 beats
MaxRRILen == 149
\* the spectra tried for one signal
MaxSeed == 2

\* n intervals: base, base + step, ..., repeating with the given period
RRIPattern(n, base, step, period) ==
    [i \in 1..n |-> base + step * ((i - 1) % period)]

\* n beats, `spacing` samples apart
Beats(n, spacing) == [i \in 1..n |-> (i - 1) * spacing]

HrvLens == {0, 1, 3, 5, 11, 13, 26, 76, 113, MaxRRILen}

HrvRRIs ==
    {<<500, 520, 510, 530, 515>>}
    \cup {RRIPattern(n, 800, 0, 1) : n \in HrvLens}
    \cup {RRIPattern(n, 800, 10, 3) : n \in HrvLens \ {0}}
    \cup {RRIPattern(n, 800, 400, 2) : n \in {5, 13, 26, 113}}
    \cup {RRIPattern(n, 1200, 0, 1) : n \in {1, 26}}

HrvSelectors == {"auto", "time", "frequency", "non-linear", "all", "bogus"}

HrvArgs ==
    {[rpeaks |-> None, sampling_rate |-> 1000, rri |-> r, parameters |-> p,
      filter_rri |-> f, detrend_rri |-> d, seed |-> 1] :
        r \in HrvRRIs, p \in HrvSelectors, f \in BOOLEAN, d \in BOOLEAN}
    \cup
    {[rpeaks |-> b, sampling_rate |-> sr, rri |-> None, parameters |-> p,
      filter_rri |-> TRUE, detrend_rri |-> d, seed |-> 1] :
        b \in {None, Beats(1, 800), Beats(MaxRRILen + 1, 800)},
        sr \in {1000, 500}, p \in {"auto", "all", "bogus"}, d \in BOOLEAN}

Init ==
    /\ pc = "check"
    /\ args \in HrvArgs
    /\ rri = <<>>
    /\ duration = 0
    /\ rri_det = None
    /\ out = EmptyOut
    /\ exc = NoExc
    /\ trace = <<>>

Next ==
    \/ HrvCheckInputs
    \/ HrvComputeRri
    \/ HrvDuration
    \/ HrvFilter
    \/ HrvDetrend
    \/ HrvSelect
    \/ HrvTimeDomain
    \/ HrvFrequencyDomain
    \/ HrvNonLinear
    \/ HrvReturn

Spec == Init /\ [][Next]_vars

(***************************************************************************)
(* Claims about hrv, checked under Spec.                                   *)
(***************************************************************************)
Families == {"hrv_timedomain", "hrv_frequencydomain", "hrv_nonlinear"}

InputSupplied == ~(args.rpeaks = None /\ args.rri = None)

\* the RRI sequence of the call before any filtering
InputRRI ==
    IF args.rri # None THEN args.rri
    ELSE compute_rri(args.rpeaks, args.sampling_rate).rri

\* sum of the unfiltered RRI sequence, ms
ActualDuration == np_sum(InputRRI)

PastSelect == pc \in {"time", "frequency", "nonlinear", "return", "done"}

\* C1: with a valid selector and rpeaks or rri supplied, no exception of a
\* feature family leaves hrv: the call never ends raised out of
\* hrv_timedomain, hrv_frequencydomain or hrv_nonlinear.
C1_FamilyFailureNeverLeavesHrv ==
    (InputSupplied /\ InList(args.parameters, parameters_list) /\ pc = "raised")
        => (trace = <<>> \/ trace[Len(trace)].step \notin Families)

\* C2: with rpeaks or rri supplied and a selector outside the five choices,
\* hrv ends at once with the ValueError that lists the five choices: no RRI
\* was computed, nothing was filtered or detrended, no feature was extracted.
C2_BadSelectorFailsFirst ==
    (InputSupplied /\ ~InList(args.parameters, <<"auto", "time", "frequency", "non-linear", "all">>)
        /\ pc # "check")
        => /\ pc = "raised"
           /\ exc.type = "ValueError"
           /\ exc.choices = <<"auto", "time", "frequency", "non-linear", "all">>
           /\ trace = <<>>
           /\ rri = <<>>
           /\ rri_det = None
           /\ out = EmptyOut

C2_Witness ==
    pc = "raised" /\ args.parameters = "bogus" /\ args.rri # None /\ Len(args.rri) > 0

\* C3 as stated: with selector "all", a family whose hard minimum (10 s
\* time-domain, 20 s frequency-domain, 90 s non-linear) is above the signal's
\* actual duration produces no feature.
C3_AllKeepsHardMinimums ==
    (args.parameters = "all" /\ pc = "done")
        => /\ ActualDuration < 10000 => "hr_avg" \notin keys(out)
           /\ ActualDuration < 20000 => "lf_hf" \notin keys(out)
           /\ ActualDuration < 90000 => "sampen" \notin keys(out)

DurationErrors == {"duration < 10", "duration < 20", "duration < 90"}

\* C3 amended: with selector "all" the duration handed to every family is
\* unbounded, so no family fails its duration test, whatever the actual
\* duration; a time-domain or non-linear result that is returned holds the
\* features of every duration tier.
C3_AllDisablesDurationTests ==
    (args.parameters = "all" /\ PastSelect)
        => /\ duration = np_inf
           /\ \A i \in 1..Len(trace) : trace[i].at \notin DurationErrors
           /\ \A i \in 1..Len(trace) :
                (trace[i].step = "hrv_timedomain" /\ trace[i].exc = "none")
                    => {"hr_avg", "rmssd", "nn50", "pnn50", "sdnn", "hti", "tinn"}
                           \subseteq keys(out)
           /\ \A i \in 1..Len(trace) :
                (trace[i].step = "hrv_nonlinear" /\ trace[i].exc = "none")
                    => {"sd1", "sd2", "sampen"} \subseteq keys(out)

C3_Witness ==
    /\ args.parameters = "all"
    /\ pc = "done"
    /\ ActualDuration < 10000
    /\ {"hr_avg", "tinn", "lf_hf", "sampen"} \subseteq keys(out)

\* the families have been entered: hrv is past line 105, or ended with an
\* exception that left a family
FamiliesEntered ==
    \/ PastSelect
    \/ pc = "raised" /\ trace # <<>> /\ trace[Len(trace)].step \in Families

\* the duration minimum of each family, s
FamilyMinimum ==
    [hrv_timedomain |-> 10, hrv_frequencydomain |-> 20, hrv_nonlinear |-> 90]

FamilyGateError ==
    [hrv_timedomain |-> "duration < 10", hrv_frequencydomain |-> "duration < 20",
     hrv_nonlinear |-> "duration < 90"]

\* C13: in hrv with a valid selector other than "all", once the families are
\* entered the duration is the sum of the RRI sequence as it was before
\* rri_filter, while the sequence analysed, which is also the one returned
\* under "rri", is the filtered one when filter_rri is set; so the duration
\* is at least the sum of the analysed sequence.  Each family fails its
\* duration test exactly when that duration is below the family's minimum,
\* whatever the sum of the analysed sequence; the time-domain mean interval
\* is the mean of the analysed sequence.
C13_GateUsesUnfilteredDuration ==
    (InputSupplied /\ InList(args.parameters, parameters_list)
        /\ args.parameters # "all" /\ FamiliesEntered)
        => /\ duration = ActualDuration
           /\ rri = IF args.filter_rri
                    THEN rri_filter(InputRRI, DefaultThreshold)
                    ELSE InputRRI
           /\ out["rri"] = rri
           /\ duration >= np_sum(rri)
           /\ \A i \in 1..Len(trace) :
                 trace[i].step \in Families
                    => ((trace[i].at = FamilyGateError[trace[i].step])
                          <=> duration < 1000 * FamilyMinimum[trace[i].step])
           /\ \A i \in 1..Len(trace) :
                 (trace[i].step = "hrv_timedomain" /\ trace[i].exc = "none"
                     /\ "rr_mean" \in keys(out))
                    => out["rr_mean"] = np_sum(rri) \div Len(rri)

\* the time-domain family passes its 10 s test on a filtered sequence that
\* sums to less than 10 s
C13_Witness ==
    /\ pc = "done"
    /\ args.parameters \in {"time", "auto"}
    /\ args.filter_rri
    /\ Len(rri) < Len(InputRRI)
    /\ np_sum(rri) < 10000
    /\ duration >= 10000
    /\ \E i \in 1..Len(trace) :
          trace[i].step = "hrv_timedomain" /\ trace[i].exc = "none"
    /\ "hr_avg" \in keys(out)

(***************************************************************************)
(* Direct calls of one function: pc = "call" with the arguments in args,   *)
(* then pc = "done" with the value returned in out and the exception       *)
(* raised in exc.  rri, duration and rri_det are not used.                 *)
(***************************************************************************)
CallInit(argset) ==
    /\ pc = "call"
    /\ args \in argset
    /\ rri = <<>>
    /\ duration = 0
    /\ rri_det = None
    /\ out = EmptyOut
    /\ exc = NoExc
    /\ trace = <<>>

Returned(res, value) ==
    /\ pc' = "done"
    /\ out' = value
    /\ exc' = IF res.exc = "none" THEN NoExc ELSE Raise(res.exc, res.at)
    /\ UNCHANGED <<args, rri, duration, rri_det, trace>>

(***************************************************************************)
(* SpecTD: calls of hrv_timedomain                                         *)
(***************************************************************************)
TDDurations ==
    {NoneDuration, np_inf, 9999, 10000, 19999, 20000, 59999, 60000, 89999, 90000}

TDRRIs ==
    {<<>>, <<800>>, <<500, 520, 510, 530, 515>>}
    \cup {RRIPattern(n, 800, 0, 1) : n \in {5, 26, MaxRRILen}}
    \cup {RRIPattern(n, 800, 10, 3) : n \in {5, 13, 26, 76, 113, MaxRRILen}}
    \cup {RRIPattern(n, 800, 60, 2) : n \in {13, 26}}

TDArgs ==
    {[rri |-> r, duration |-> d, detrend_rri |-> dt, rri_detrended |-> None] :
        r \in TDRRIs, d \in TDDurations, dt \in BOOLEAN}

CallHrvTimedomain ==
    /\ pc = "call"
    /\ LET res == hrv_timedomain(args.rri, args.duration, args.detrend_rri,
                                 args.rri_detrended)
       IN Returned(res, res.out)

InitTD == CallInit(TDArgs)

NextTD == CallHrvTimedomain

SpecTD == InitTD /\ [][NextTD]_vars

\* the duration hrv_timedomain tests: the argument, or the sum of rri
TDDuration == IF args.duration = NoneDuration THEN np_sum(args.rri) ELSE args.duration

Tier10Keys == {"hr", "hr_min", "hr_max", "hr_minmax", "hr_avg", "rr_mean", "rmssd"}

\* C4 (for a sequence of at least two intervals): hrv_timedomain raises the ValueError of line 245 and returns nothing
\* for a duration below 10 s; from 10 s on it emits the heart-rate keys,
\* rr_mean and rmssd; nn50 and pnn50 iff the duration is at least 20 s, sdnn
\* iff at least 60 s, hti and tinn iff at least 90 s.
C4_TiersByDuration ==
    (pc = "done" /\ Len(args.rri) >= 2) =>
        /\ DurationLt(TDDuration, 10)
              => (exc.type = "ValueError" /\ keys(out) = {})
        /\ DurationGe(TDDuration, 10)
              => (exc.type = "none" /\ Tier10Keys \subseteq keys(out))
        /\ DurationGe(TDDuration, 20) <=> {"nn50", "pnn50"} \subseteq keys(out)
        /\ DurationGe(TDDuration, 60) <=> "sdnn" \in keys(out)
        /\ DurationGe(TDDuration, 90) <=> {"hti", "tinn"} \subseteq keys(out)

\* C5: for 149 intervals of 800 ms (150 beats, 119.2 s) hrv_timedomain
\* returns, with hr_avg = 75.0 bpm, rmssd = 0, sdnn = 0, nn50 = 0, pnn50 = 0.
C5_ConstantSequenceFeatures ==
    (pc = "done" /\ args.rri = RRIPattern(149, 800, 0, 1)
        /\ args.duration = NoneDuration)
        => /\ exc.type = "none"
           /\ keys(out) # {}
           /\ out["hr_avg"] = 75000
           /\ out["rmssd"] = 0
           /\ out["sdnn"] = 0
           /\ out["nn50"] = 0
           /\ out["pnn50"].num = 0

(***************************************************************************)
(* SpecGeo: calls of compute_geometrical                                   *)
(***************************************************************************)
MaxGeoLen == 4

GeoValues == {800, 805, 810, 820, 830}

SeqsUpTo(vals, n) == UNION {[1..k -> vals] : k \in 0..n}

\* binsize: the default 1/128 s and 0.01 s, in 1/16 ms
\* sequences given by their histogram: counts[i] intervals of 800 + 10 * (i - 1)
\* ms, for every vector of MaxGeoBins counts of at most MaxGeoCount
MaxGeoBins == 4

MaxGeoCount == 4

GeoFromCounts(counts) ==
    np_concatenate([i \in 1..Len(counts) |->
                       [j \in 1..counts[i] |-> 800 + 10 * (i - 1)]])

GeoHistRRIs == {GeoFromCounts(c) : c \in [1..MaxGeoBins -> 0..MaxGeoCount]}

GeoArgs ==
    {[rri |-> r, binsize |-> b] :
        r \in SeqsUpTo(GeoValues, MaxGeoLen) \cup GeoHistRRIs,
        b \in {DefaultBinsize16, 160}}

CallComputeGeometrical ==
    /\ pc = "call"
    /\ LET res == compute_geometrical(args.rri, args.binsize)
       IN Returned(res, res)

InitGeo == CallInit(GeoArgs)

NextGeo == CallComputeGeometrical

SpecGeo == InitGeo /\ [][NextGeo]_vars

\* C8: when compute_geometrical returns, TINN >= 0, and TINN = 0 only for a
\* histogram of a single bin: with more than one bin TINN > 0 wherever the
\* peak bin is.
C8_TinnPositive ==
    (pc = "done" /\ exc.type = "none")
        => /\ out.tinn >= 0
           /\ out.nbins > 1 => out.tinn > 0

\* the candidate pairs of a returned call, as edge indexes (1-based): N over
\* the edges before the peak bin, M over the edges after its left edge
GeoPeak == out.peak_hist + 1

GeoNs == 1..(GeoPeak - 1)

GeoMs == (GeoPeak + 1)..(out.nbins + 1)

GeoErr(a, b) == geo_error(out.hist, a, GeoPeak, b, np_max(out.hist))

GeoErrLe(e1, e2) == e1.num * e2.den <= e2.num * e1.den

\* (a1, b1) comes before (a2, b2) in the loops' order: N ascending in the
\* outer loop, M ascending in the inner one
GeoBefore(a1, b1, a2, b2) == a1 < a2 \/ (a1 = a2 /\ b1 < b2)

\* C12: when compute_geometrical returns, a pair is retained exactly when
\* there is a candidate; the retained pair is a candidate whose sum of
\* squared residuals is the minimum over all candidates, and every candidate
\* visited before it (N ascending, then M ascending) has a strictly larger
\* sum: of the pairs of minimal residual the first one visited is retained.
\* TINN is the distance between the retained edges.
C12_FirstMinimalPairRetained ==
    (pc = "done" /\ exc.type = "none")
        => /\ out.found <=> (GeoNs # {})
           /\ out.found =>
                /\ out.a \in GeoNs
                /\ out.b \in GeoMs
                /\ \A a \in GeoNs, b \in GeoMs :
                      /\ GeoErrLe(GeoErr(out.a, out.b), GeoErr(a, b))
                      /\ GeoBefore(a, b, out.a, out.b)
                            => ~GeoErrLe(GeoErr(a, b), GeoErr(out.a, out.b))
                /\ out.tinn = (out.b - out.a) * args.binsize

\* an exact tie: a pair visited after the retained one has the same residual
C12_Witness ==
    /\ pc = "done"
    /\ exc.type = "none"
    /\ out.found
    /\ \E a \in GeoNs, b \in GeoMs :
          /\ GeoBefore(out.a, out.b, a, b)
          /\ GeoErrLe(GeoErr(a, b), GeoErr(out.a, out.b))

(***************************************************************************)
(* SpecSE: calls of sample_entropy                                         *)
(***************************************************************************)
MaxSELen == 5

SEValues == {800, 810, 900}

SEArgs ==
    {[rri |-> r, m |-> m] : r \in SeqsUpTo(SEValues, MaxSELen), m \in {1, 2}}

CallSampleEntropy ==
    /\ pc = "call"
    /\ LET res == sample_entropy(args.rri, args.m, 1, 5)
       IN Returned(res, res)

InitSE == CallInit(SEArgs)

NextSE == CallSampleEntropy

SpecSE == InitSE /\ [][NextSE]_vars

MaxDWLen == 7
MaxWinLen == 4

DWArgs ==
    {[rri |-> r, win_len |-> w] :
        r \in SeqsUpTo({800, 900}, MaxDWLen), w \in 1..MaxWinLen}

CallDetrendWindow ==
    /\ pc = "call"
    /\ LET res == detrend_window(args.rri, args.win_len)
       IN /\ pc' = "done"
          /\ out' = res.rri_det
          /\ trace' = res.calls
          /\ UNCHANGED <<args, rri, duration, rri_det, exc>>

InitDW == CallInit(DWArgs)

NextDW == CallDetrendWindow

SpecDW == InitDW /\ [][NextDW]_vars

\* C10: detrend_window returns as many values as it was given.  A sequence
\* no longer than the window goes to the primitive once, whole.  A longer
\* one is cut into floor(L / w) contiguous partitions whose sizes differ by
\* at most 1 and which, put end to end, are the input; the primitive is
\* applied to each one and the results are concatenated in that order.
C10_DetrendWindowPartitions ==
    pc = "done" =>
        LET L == Len(args.rri)
            w == args.win_len
        IN /\ Len(out) = L
           /\ L <= w => trace = <<args.rri>>
           /\ L > w =>
                /\ Len(trace) = L \div w
                /\ \A i, j \in 1..Len(trace) : Len(trace[i]) - Len(trace[j]) <= 1
                /\ np_concatenate(trace) = args.rri
           /\ out = np_concatenate([k \in 1..Len(trace) |->
                        detrend_smoothness_priors(trace[k], DefaultSmoothingFactor)])

C10_Witness ==
    /\ pc = "done"
    /\ Len(args.rri) = 7
    /\ args.win_len = 3
    /\ Len(trace) = 2
    /\ Len(trace[1]) = 4
    /\ Len(trace[2]) = 3

(***************************************************************************)
(* SpecFD: calls of hrv_frequencydomain and of compute_fbands              *)
(***************************************************************************)
MaxFreqs == 4
MaxPower == 2

\* caller-supplied band tables
CustomFbands ==
    { << [name |-> "lf", lo |-> 40, hi |-> 100],
         [name |-> "hf", lo |-> 100, hi |-> 400] >>,
      << [name |-> "vlf", lo |-> 0, hi |-> 40],
         [name |-> "lf", lo |-> 50, hi |-> 140],
         [name |-> "hf", lo |-> 160, hi |-> 500] >> }

FDArgs ==
    {[op |-> "hrv_frequencydomain", rri |-> r, duration |-> d, freq_method |-> fm,
      fbands |-> fb, detrend_rri |-> dt, frs |-> DefaultFrs, seed |-> sd] :
        r \in {<<>>, <<800, 810, 820>>}
              \cup {RRIPattern(n, 800, 10, 3) : n \in {5, 26, 113}},
        d \in {NoneDuration, np_inf, 19999, 20000},
        fm \in {"FFT", "AR"},
        fb \in {NoneFbands, FBANDS} \cup CustomFbands,
        dt \in BOOLEAN,
        sd \in 1..MaxSeed}

\* a frequency axis f0, f0 + step, ... in mHz
FreqAxis(f0, step, n) == [num |-> [i \in 1..n |-> f0 + (i - 1) * step], den |-> 1000]

FBArgs ==
    {[op |-> "compute_fbands", frequencies |-> FreqAxis(f0, st, Len(pw)),
      powers |-> pw, fbands |-> NoneFbands] :
        f0 \in {0, 1}, st \in {1, 20, 40, 75, 200},
        pw \in UNION {[1..n -> 0..MaxPower] : n \in 1..MaxFreqs}}

CallHrvFrequencydomain ==
    /\ pc = "call"
    /\ args.op = "hrv_frequencydomain"
    /\ LET res == hrv_frequencydomain(args.rri, args.duration, args.freq_method,
                                      args.fbands, args.detrend_rri, args.frs, args.seed)
       IN Returned(res, res)

CallComputeFbands ==
    /\ pc = "call"
    /\ args.op = "compute_fbands"
    /\ LET res == compute_fbands(args.frequencies, args.powers, args.fbands)
       IN Returned(res, res)

InitFD == CallInit(FDArgs \cup FBArgs)

NextFD == CallHrvFrequencydomain \/ CallComputeFbands

SpecFD == InitFD /\ [][NextFD]_vars

BandKeys(table) ==
    UNION {{table[k].name \o "_pwr", table[k].name \o "_peak", table[k].name \o "_rpwr"} :
               k \in 1..Len(table)}

Restrict(o, ks) == [k \in (DOMAIN o) \cap ks |-> o[k]]

\* C6: when the caller passes a band table to hrv_frequencydomain, the band
\* entries it returns are those of that table over the estimated spectrum,
\* and lf_hf, lf_nu and hf_nu are derived from that table's lf and hf powers.
C6_CallerBandsUsed ==
    (pc = "done" /\ args.op = "hrv_frequencydomain" /\ exc.type = "none"
        /\ args.fbands # NoneFbands)
        => LET own == compute_fbands(out.frequencies, out.powers, args.fbands).out
           IN /\ Restrict(out.out, BandKeys(FBANDS) \cup BandKeys(args.fbands)) = own
              /\ out.out["lf_hf"] = [num |-> own["lf_pwr"], den |-> own["hf_pwr"]]
              /\ out.out["lf_nu"].num = own["lf_pwr"]
              /\ out.out["hf_nu"].num = own["hf_pwr"]

RpwrKeys == {FBANDS[k].name \o "_rpwr" : k \in 1..Len(FBANDS)}

\* the sum of the emitted relative powers, times total_pwr
RpwrSumNum(o) ==
    LET ks == RpwrKeys \cap DOMAIN o
        RECURSIVE Add(_)
        Add(S) == IF S = {} THEN 0
                  ELSE LET k == CHOOSE k \in S : TRUE IN o[k].num + Add(S \ {k})
    IN Add(ks)

\* how many of the default bands select frequency index i
Coverage(frequencies, i) ==
    Cardinality({k \in 1..Len(FBANDS) :
        i \in band_indexes(frequencies, FBANDS[k].lo, FBANDS[k].hi)})

\* C7: for compute_fbands with the default table, a uniform axis and
\* non-negative powers of positive total, the emitted relative powers sum to
\* at most 1, and to exactly 1 only when every spectrum sample lies in
\* exactly one selected band.
C7_RelativePowersAtMostOne ==
    (pc = "done" /\ args.op = "compute_fbands" /\ exc.type = "none"
        /\ out.total_pwr > 0)
        => /\ RpwrSumNum(out.out) <= out.total_pwr
           /\ RpwrSumNum(out.out) = out.total_pwr
                 => \A i \in 1..Len(args.powers) : Coverage(args.frequencies, i) = 1

(***************************************************************************)
(* SpecRF: a call of rri_filter, then a second call with the same          *)
(* threshold on the sequence the first one returned.  out holds the first  *)
(* result, rri the second.                                                 *)
(***************************************************************************)
MaxRFLen == 4

RFValues == {400, 1000, 1199, 1200, 1201}

RFThresholds == {DefaultThreshold, 1000}

RFArgs ==
    {[rri |-> r, threshold |-> t] :
        r \in SeqsUpTo(RFValues, MaxRFLen), t \in RFThresholds}

CallRriFilter ==
    /\ pc = "call"
    /\ pc' = "done"
    /\ out' = rri_filter(args.rri, args.threshold)
    /\ UNCHANGED <<args, rri, duration, rri_det, exc, trace>>

CallRriFilterAgain ==
    /\ pc = "done"
    /\ pc' = "again"
    /\ rri' = rri_filter(out, args.threshold)
    /\ UNCHANGED <<args, duration, rri_det, out, exc, trace>>

InitRF == CallInit(RFArgs)

NextRF == CallRriFilter \/ CallRriFilterAgain

SpecRF == InitRF /\ [][NextRF]_vars

\* the indexes of the intervals strictly below the threshold
RFKept == {i \in 1..Len(args.rri) : args.rri[i] < args.threshold}

\* the k-th smallest index of RFKept
RFKeptIndex(k) ==
    CHOOSE i \in RFKept : Cardinality({j \in RFKept : j <= i}) = k

====
